--------------------------- MODULE ConfigModeProofs ---------------------------
(***************************************************************************)
(* Safety of a boot in config mode, for every number of blinks and of      *)
(* provisioning tasks, both idle limits, and whatever its users do.        *)
(***************************************************************************)
EXTENDS ConfigMode, TLAPS

USE MaxBlinksAssumption, TimeoutAssumption

-----------------------------------------------------------------------------
\* What a step does to the indicator, and what to the session

OnlyTimerMoves ==
  /\ timerTask' \in TimerPlaces
  /\ UNCHANGED <<led, pwm, dppPc, snap, btn, reset_flag, unsteady>>

LedStep(A) == A /\ UNCHANGED <<timerTask, dppPc, snap, btn, reset_flag, unsteady>>

CallbackStep ==
  \/ PwmTimerFires \/ PwmTimerCb
  \/ Click \/ ClickTaken \/ ClickBlinks \/ PressDown \/ PressUp \/ HoldArms

DppStep(d) ==
  DoubleClick(d) \/ DppLed(d) \/ DppGoesOn(d, "clear", "run") \/ DppGoesOn(d, "end", "idle")

IndicatorStep ==
  \/ UNCHANGED indicatorVars \/ OnlyTimerMoves \/ LedStep(FlashControl) \/ CallbackStep \/ MiscTask
  \/ \E d \in DppTasks : DppStep(d)

\* The indicator is lit from the first step of config mode to the last but one.
Lit == mainPc \notin {"config", "dark"} /\ ~Over

UseStep(ticking) ==
  \/ Request(ticking) \/ LiveView(ticking)
  \/ RequestEnd("sleep", ticking) \/ RequestEnd("reset", ticking)

WebStep ==
  \/ UNCHANGED webVars
  \/ HttpOpen \/ HttpTickReads \/ HttpTickWrites \/ ApTick
  \/ \E yes \in BOOLEAN : ApOpen(yes) \/ Debug(yes) \/ DppBit(yes)
  \/ UseStep(Ticking) \/ SnapshotCounts
  \/ SleepAsked \/ UpgradeBegins \/ UpgradeFails \/ ApUser \/ TcpTest \/ WaitReturns

LEMMA IndicatorSteps ==
  Next => \/ LedStep(LedAble) /\ mainPc = "config"
          \/ LedStep(LedOff) /\ mainPc' = "dark"
          \/ IndicatorStep /\ (Lit' => Lit)
<1> SUFFICES ASSUME Next, ~(LedStep(LedAble) /\ mainPc = "config"),
                    ~(LedStep(LedOff) /\ mainPc' = "dark")
             PROVE  IndicatorStep /\ (Lit' => Lit)
  OBVIOUS
<1> USE DEF IndicatorStep
<1>1. CASE Main
  <2>1. CASE MainHttp \/ MainNetwork \/ MainCamera \/ MainBits \/ MainWakes
    BY <2>1 DEF MainHttp, MainNetwork, MainCamera, MainBits, MainWakes, MainGoes, Lit, Over
  <2>2. CASE MainSnapshot \/ MainTaken \/ MainSleeps
    <3>1. LedStep(FlashControl)
      BY <2>2, Zenon DEF MainSnapshot, MainTaken, MainSleeps, OnlyLed, LedStep, FlashControl
    <3>2. Lit' => Lit
      BY <2>2 DEF MainSnapshot, MainTaken, MainSleeps, MainGoes, Lit, Over
    <3>3. QED BY <3>1, <3>2, Zenon
  <2>3. CASE MainLed \/ MainDark
    BY <2>3, Zenon DEF MainLed, MainDark, MainGoes, OnlyLed, LedStep
  <2>4. QED BY <1>1, <2>1, <2>2, <2>3, Zenon DEF Main
<1>2. CASE Callback \/ SecondPasses
  <2>1. Lit' => Lit
    BY <1>2 DEF Callback, SecondPasses, Lit, Over
  <2>2. IndicatorStep
    BY <1>2 DEF Callback, SecondPasses, Second, HttpTimer, WifiTimer, TimerGoes,
       OnlyTimerMoves, TimerPlaces, OnlyIndicator, CallbackStep
  <2>3. QED BY <2>1, <2>2
<1>3. CASE LedFires \/ Misc
  <2>1. Lit' => Lit
    BY <1>3 DEF LedFires, Misc, Lit, Over
  <2>2. IndicatorStep
    BY <1>3, Zenon DEF LedFires, Misc, OnlyIndicator, CallbackStep
  <2>3. QED BY <2>1, <2>2
<1>4. CASE WebEnds \/ Use
  <2>1. mainPc' \in {mainPc, "restarted"}
    BY <1>4 DEF WebEnds, WebRestarts, Use, Web, Console, Button, OnlyWeb, Light
  <2>2. IndicatorStep
    BY <1>4, Zenon DEF WebEnds, WebRestarts, Use, Web, Console, Button, OnlyWeb, Light, LedStep,
       CallbackStep, DppStep
  <2>3. QED BY <2>1, <2>2 DEF Lit, Over
<1>5. CASE \E d \in DppTasks : Provisioner(d)
  <2>1. Lit' => Lit
    BY <1>5 DEF Provisioner, Lit, Over
  <2>2. IndicatorStep
    BY <1>5, Zenon DEF Provisioner, OnlyIndicator, DppBits, DppStep
  <2>3. QED BY <2>1, <2>2
<1>6. QED BY <1>1, <1>2, <1>3, <1>4, <1>5, Zenon DEF Next

LEMMA WebSteps == Next => WebStep
<1> SUFFICES ASSUME Next PROVE WebStep
  OBVIOUS
<1> USE DEF WebStep
<1>1. CASE Main
  <2>1. ("access_point" \in uses) \in BOOLEAN
    OBVIOUS
  <2>2. QED
    BY <1>1, <2>1, Zenon DEF Main, MainLed, MainHttp, MainNetwork, MainCamera, MainSnapshot,
       MainTaken, MainBits, MainWakes, MainDark, MainSleeps, OnlyLed
<1>2. CASE Callback \/ SecondPasses \/ LedFires \/ Misc
  BY <1>2, Zenon DEF Callback, SecondPasses, Second, HttpTimer, WifiTimer, LedFires, Misc,
     OnlyIndicator
<1>3. CASE WebEnds \/ Use
  BY <1>3, Zenon DEF WebEnds, WebRestarts, Use, Web, Console, Button, OnlyWeb, Light, UseStep
<1>4. CASE \E d \in DppTasks : Provisioner(d)
  BY <1>4, Zenon DEF Provisioner, OnlyIndicator, DppBits
<1>5. QED BY <1>1, <1>2, <1>3, <1>4, Zenon DEF Next

-----------------------------------------------------------------------------
\* Types

Duties == {"off", "light", "flash"}
Counts == 0 .. MaxBlinks \cup {Forever}

\* The animations, with a count that is any of the permitted ones.
LEMMA EffectTypes ==
  ASSUME led \in Leds, NEW n \in Counts
  PROVE  /\ [led EXCEPT !.effect = "blink", !.hold_on = FALSE, !.light_state = TRUE,
                        !.blink_cnt = n, !.timer_state = TRUE, !.light_update = TRUE] \in Leds
         /\ [led EXCEPT !.hold_on = FALSE, !.light_state = TRUE, !.effect = "breath",
                        !.blink_cnt = n, !.timer_state = FALSE, !.light_update = TRUE] \in Leds
         /\ [led EXCEPT !.light_state = FALSE, !.blink_cnt = n] \in Leds
<1>1. [led EXCEPT !.effect = "blink", !.hold_on = FALSE, !.light_state = TRUE,
                  !.blink_cnt = n, !.timer_state = TRUE, !.light_update = TRUE] \in Leds
  BY DEF Leds, Counts
<1>2. [led EXCEPT !.hold_on = FALSE, !.light_state = TRUE, !.effect = "breath",
                  !.blink_cnt = n, !.timer_state = FALSE, !.light_update = TRUE] \in Leds
  BY DEF Leds, Counts
<1>3. [led EXCEPT !.light_state = FALSE, !.blink_cnt = n] \in Leds
  BY DEF Leds, Counts
<1>4. QED BY <1>1, <1>2, <1>3

LEMMA BlinkTypes ==
  ASSUME led \in Leds, pwm \in Duties, NEW n \in Counts, LedBlink(n)
  PROVE  led' \in Leds /\ pwm' \in Duties
BY EffectTypes DEF LedBlink

LEMMA CountValues == {0, 1, MaxBlinks, Forever} \subseteq Counts
BY DEF Counts

LEMMA SteadyTypes ==
  ASSUME led \in Leds
  PROVE  (LedAble => led' \in Leds) /\ (LedOff => led' \in Leds)
<1>1. ASSUME LedAble PROVE led' \in Leds
  BY <1>1 DEF LedAble, Leds
<1>2. ASSUME LedOff PROVE led' \in Leds
  BY <1>2 DEF LedOff, Leds
<1>3. QED BY <1>1, <1>2

LEMMA FlashTypes ==
  ASSUME led \in Leds
  PROVE  FlashControl => led' \in Leds
<1>1. ASSUME LightSample PROVE led' \in Leds
  BY <1>1 DEF LightSample, Leds, ledVars
<1>2. ASSUME FlashOpen PROVE led' \in Leds
  BY <1>2 DEF FlashOpen, Leds
<1>3. ASSUME FlashClose PROVE led' \in Leds
  <2>1. CASE led.mode # "flash"
    BY <1>3, <2>1 DEF FlashClose, ledVars
  <2>2. CASE led.mode = "flash"
    <3>1. led' = [led EXCEPT !.mode = "light", !.light_update = TRUE,
                             !.light_state = led.light_state \/ led.hold_on]
      BY <1>3, <2>2 DEF FlashClose
    <3>2. ASSUME NEW lit \in BOOLEAN
          PROVE  [led EXCEPT !.mode = "light", !.light_update = TRUE, !.light_state = lit] \in Leds
      BY DEF Leds
    <3>3. QED BY <3>1, <3>2
  <2>3. QED BY <2>1, <2>2
<1>4. QED BY <1>1, <1>2, <1>3 DEF FlashControl

LEMMA LedTypes ==
  ASSUME led \in Leds, pwm \in Duties, LedAble \/ LedOff \/ FlashControl
  PROVE  led' \in Leds /\ pwm' \in Duties
<1>1. led' \in Leds
  BY SteadyTypes, FlashTypes
<1>2. pwm' \in Duties
  BY DEF Duties, LedAble, LedOff, FlashControl, LightSample, FlashOpen, FlashClose, ledVars
<1>3. QED BY <1>1, <1>2

LEMMA CallbackTypes == IndicatorTypeOK /\ CallbackStep => IndicatorTypeOK'
<1> SUFFICES ASSUME IndicatorTypeOK, CallbackStep PROVE IndicatorTypeOK'
  OBVIOUS
<1> USE DEF IndicatorTypeOK, TimerPlaces, RestUnchanged, Duties
<1>1. CASE PwmTimerFires
  BY <1>1 DEF PwmTimerFires, ledVars
<1>2. CASE PwmTimerCb
  <2>1. led' \in Leds
    <3>1. CASE led.blink_cnt > 0 /\ ~led.light_state
      BY <1>2, <3>1 DEF PwmTimerCb, Leds
    <3>2. CASE ~(led.blink_cnt > 0 /\ ~led.light_state)
      <4>1. PICK n \in Counts : led' = [led EXCEPT !.light_state = FALSE, !.blink_cnt = n]
        <5>1. led.blink_cnt \in Counts
          BY DEF Leds, Counts
        <5>2. led.blink_cnt \notin {0, Forever} => led.blink_cnt - 1 \in Counts
          BY <5>1 DEF Counts
        <5>3. QED BY <1>2, <3>2, <5>1, <5>2 DEF PwmTimerCb
      <4>2. QED BY <4>1, EffectTypes
    <3>3. QED BY <3>1, <3>2
  <2>2. QED BY <1>2, <2>1 DEF PwmTimerCb
<1>3. CASE Click \/ ClickTaken
  <2>1. led' \in Leds /\ pwm' \in Duties
    BY <1>3, LedTypes DEF Click, ClickTaken, FlashControl
  <2>2. QED BY <1>3, <2>1 DEF Click, ClickTaken
<1>4. CASE ClickBlinks \/ HoldArms
  <2>1. led' \in Leds /\ pwm' \in Duties
    BY <1>4, BlinkTypes, CountValues DEF ClickBlinks, HoldArms
  <2>2. QED BY <1>4, <2>1 DEF ClickBlinks, HoldArms
<1>5. CASE PressDown \/ PressUp
  BY <1>5 DEF PressDown, PressUp
<1>6. QED BY <1>1, <1>2, <1>3, <1>4, <1>5 DEF CallbackStep

LEMMA DppTypes ==
  ASSUME IndicatorTypeOK, NEW d \in DppTasks, DppStep(d)
  PROVE  IndicatorTypeOK'
<1> USE DEF IndicatorTypeOK, Duties
<1>1. dppPc' \in [DppTasks -> DppPlaces]
  BY DEF DppStep, DppLed, DoubleClick, DppGoesOn, DppSaves, DppBreathes, DppSucceeds, DppFails,
     DppBlinked, DppRestores, DppGoes, DppPlaces
<1>2. CASE DoubleClick(d) \/ DppSucceeds(d)
  <2>1. led' \in Leds /\ pwm' \in Duties
    BY <1>2, BlinkTypes, CountValues DEF DoubleClick, DppSucceeds, ledVars
  <2>2. QED BY <1>1, <1>2, <2>1 DEF DoubleClick, DppSucceeds
<1>3. CASE DppSaves(d)
  <2>1. snap' \in [DppTasks -> Snapshots]
    BY <1>3 DEF DppSaves, Leds, Snapshots
  <2>2. QED BY <1>1, <1>3, <2>1 DEF DppSaves
<1>4. CASE DppBreathes(d)
  <2>1. led' \in Leds
    BY <1>4, EffectTypes, CountValues DEF DppBreathes
  <2>2. QED BY <1>1, <1>4, <2>1 DEF DppBreathes
<1>5. CASE DppRestores(d)
  <2>1. snap[d] \in Snapshots /\ NoSnapshot \in Snapshots
    BY DEF Snapshots, NoSnapshot
  <2>2. ASSUME NEW m \in {"light", "flash"}, NEW h \in BOOLEAN, NEW l \in BOOLEAN,
               NEW n \in Counts
        PROVE  [led EXCEPT !.effect = "none", !.blink_cnt = n, !.timer_state = FALSE,
                           !.mode = m, !.hold_on = h, !.light_state = l,
                           !.light_update = TRUE] \in Leds
    BY DEF Leds, Counts
  <2>3. led' \in Leds
    <3>1. snap[d].mode \in {"light", "flash"} /\ snap[d].hold_on \in BOOLEAN
          /\ snap[d].light_state \in BOOLEAN
      BY <2>1, Zenon DEF Snapshots
    <3>2. QED BY <1>5, <2>2, <3>1, CountValues DEF DppRestores
  <2>4. QED BY <1>1, <1>5, <2>1, <2>3 DEF DppRestores
<1>6. CASE DppFails(d) \/ DppBlinked(d) \/ DppGoesOn(d, "clear", "run")
           \/ DppGoesOn(d, "end", "idle")
  BY <1>1, <1>6 DEF DppFails, DppBlinked, DppGoesOn
<1>7. QED BY <1>2, <1>3, <1>4, <1>5, <1>6 DEF DppStep, DppLed

LEMMA IndicatorTypes ==
  IndicatorTypeOK /\ (IndicatorStep \/ LedStep(LedAble) \/ LedStep(LedOff)) => IndicatorTypeOK'
<1> SUFFICES ASSUME IndicatorTypeOK, IndicatorStep \/ LedStep(LedAble) \/ LedStep(LedOff)
             PROVE  IndicatorTypeOK'
  OBVIOUS
<1>1. CASE UNCHANGED indicatorVars \/ OnlyTimerMoves
  BY <1>1 DEF IndicatorTypeOK, indicatorVars, OnlyTimerMoves
<1>2. CASE LedStep(FlashControl) \/ LedStep(LedAble) \/ LedStep(LedOff)
  <2>1. led' \in Leds /\ pwm' \in Duties
    BY <1>2, LedTypes DEF LedStep, IndicatorTypeOK, Duties
  <2>2. QED BY <1>2, <2>1 DEF LedStep, IndicatorTypeOK, Duties
<1>3. CASE MiscTask
  <2>1. Blinked(Breathed(led)) \in Leds
    BY DEF Blinked, Breathed, Leds, IndicatorTypeOK
  <2>2. led' \in Leds
    BY <1>3, <2>1 DEF MiscTask, Leds
  <2>3. pwm' \in Duties
    BY <1>3 DEF MiscTask, IndicatorTypeOK, Duties
  <2>4. QED BY <1>3, <2>2, <2>3 DEF MiscTask, RestUnchanged, IndicatorTypeOK, Duties
<1>4. QED BY <1>1, <1>2, <1>3, CallbackTypes, DppTypes DEF IndicatorStep

CountersOK ==
  /\ webTimeoutSeconds \in 0 .. WebTimeout /\ tick \in 0 .. WebTimeout
  /\ apTimeoutSeconds \in 0 .. ApTimeout
  /\ quiet \in 0 .. WebTimeout
  /\ bits \subseteq SessionBits
  /\ webPc \in {"idle", "sleep", "reset", "upgrade"}

SessionFlagsOK ==
  /\ hasClient \in BOOLEAN /\ apUser \in BOOLEAN /\ apTimer \in BOOLEAN
  /\ uncounted \in BOOLEAN /\ asked \in BOOLEAN

LEMMA WebTypes == WebTypeOK /\ WebStep => WebTypeOK'
<1> SUFFICES ASSUME WebTypeOK, WebStep PROVE WebTypeOK'
  OBVIOUS
<1> USE DEF timeVars, historyVars
<1>1. CountersOK /\ SessionFlagsOK
  BY Zenon DEF WebTypeOK, CountersOK, SessionFlagsOK
<1>2. CountersOK'
  <2> USE <1>1 DEF CountersOK, SessionBits, After
  <2>1. CASE UNCHANGED webVars
    BY <2>1 DEF webVars
  <2>2. CASE HttpOpen \/ HttpTickReads \/ HttpTickWrites \/ ApTick
    <3>1. CASE HttpOpen \/ HttpTickReads
      <4>1. /\ webTimeoutSeconds' \in {0, webTimeoutSeconds} /\ tick' \in {tick, webTimeoutSeconds}
            /\ UNCHANGED <<apTimeoutSeconds, webPc>>
            /\ quiet' \in {0, quiet} /\ bits' \in {bits, bits \cup {"no_debug"}}
        BY <3>1, Zenon DEF HttpOpen, HttpTickReads
      <4>2. QED BY <4>1
    <3>2. CASE HttpTickWrites
      BY <3>2 DEF HttpTickWrites
    <3>3. CASE ApTick
      BY <3>3 DEF ApTick
    <3>4. QED BY <2>2, <3>1, <3>2, <3>3
  <2>3. CASE \E yes \in BOOLEAN : ApOpen(yes) \/ Debug(yes) \/ DppBit(yes)
    BY <2>3 DEF ApOpen, Debug, DppBit
  <2>4. CASE UseStep(Ticking) \/ SnapshotCounts
    <3>1. CASE Request(Ticking) \/ LiveView(Ticking) \/ SnapshotCounts
      <4>1. /\ webTimeoutSeconds' = 0 /\ quiet' = 0 /\ UNCHANGED <<tick, bits, webPc>>
            /\ apTimeoutSeconds' \in {0, apTimeoutSeconds}
        BY <3>1, Zenon DEF Request, LiveView, ClearTimeout, Used, SnapshotCounts
      <4>2. QED BY <4>1
    <3>2. CASE RequestEnd("sleep", Ticking) \/ RequestEnd("reset", Ticking)
      <4>1. /\ webTimeoutSeconds' = 0 /\ quiet' = 0 /\ UNCHANGED <<tick, bits, apTimeoutSeconds>>
            /\ webPc' \in {"sleep", "reset"}
        BY <3>2, Zenon DEF RequestEnd, ClearTimeout, Used
      <4>2. QED BY <4>1
    <3>3. QED BY <2>4, <3>1, <3>2 DEF UseStep
  <2>5. CASE SleepAsked \/ UpgradeBegins \/ UpgradeFails \/ ApUser \/ TcpTest \/ WaitReturns
    <3>1. CASE SleepAsked \/ UpgradeBegins \/ UpgradeFails
      <4>1. /\ UNCHANGED <<webTimeoutSeconds, tick, apTimeoutSeconds>>
            /\ quiet' \in {0, quiet} /\ bits' \in {bits, bits \cup {"no_operation"}}
            /\ webPc' \in {"idle", "upgrade"}
        BY <3>1, Zenon DEF SleepAsked, UpgradeBegins, UpgradeFails
      <4>2. QED BY <4>1
    <3>2. CASE ApUser \/ TcpTest \/ WaitReturns
      BY <3>2 DEF ApUser, TcpTest, WaitReturns
    <3>3. QED BY <2>5, <3>1, <3>2
  <2>6. QED BY <2>1, <2>2, <2>3, <2>4, <2>5 DEF WebStep
<1>3. SessionFlagsOK'
  <2> USE <1>1 DEF SessionFlagsOK
  <2>1. CASE UNCHANGED webVars
    BY <2>1, Zenon DEF webVars
  <2>2. CASE HttpOpen \/ HttpTickReads \/ HttpTickWrites \/ ApTick
    BY <2>2, Zenon DEF HttpOpen, HttpTickReads, HttpTickWrites, ApTick
  <2>3. CASE \E yes \in BOOLEAN : ApOpen(yes) \/ Debug(yes) \/ DppBit(yes)
    BY <2>3, Zenon DEF ApOpen, Debug, DppBit
  <2>4. CASE UseStep(Ticking) \/ SnapshotCounts
    <3>1. uncounted' \in BOOLEAN
      BY <2>4 DEF UseStep, Request, LiveView, RequestEnd, ClearTimeout, Used, SnapshotCounts,
         Ticking
    <3>2. QED
      BY <2>4, <3>1, Zenon DEF UseStep, Request, LiveView, RequestEnd, ClearTimeout, Used,
         SnapshotCounts
  <2>5. CASE SleepAsked \/ UpgradeBegins \/ UpgradeFails \/ ApUser \/ TcpTest \/ WaitReturns
    BY <2>5, Zenon DEF SleepAsked, UpgradeBegins, UpgradeFails, ApUser, TcpTest, WaitReturns
  <2>6. QED BY <2>1, <2>2, <2>3, <2>4, <2>5 DEF WebStep
<1>4. QED BY <1>2, <1>3, Zenon DEF WebTypeOK, CountersOK, SessionFlagsOK

LEMMA MainMoves == Next => uses' = uses /\ mainPc' \in MainPlaces \cup {mainPc}
<1> USE DEF MainPlaces
<1>1. Main => uses' = uses /\ mainPc' \in MainPlaces \cup {mainPc}
  BY DEF Main, MainLed, MainHttp, MainNetwork, MainCamera, MainSnapshot, MainTaken,
     MainBits, MainWakes, MainDark, MainSleeps, MainGoes
<1>2. Callback \/ SecondPasses \/ LedFires \/ Misc =>
        uses' = uses /\ mainPc' \in MainPlaces \cup {mainPc}
  BY DEF Callback, SecondPasses, LedFires, Misc
<1>3. WebEnds \/ Use => uses' = uses /\ mainPc' \in MainPlaces \cup {mainPc}
  BY DEF WebEnds, Use, WebRestarts, Web, Console, Button, OnlyWeb, Light
<1>4. (\E d \in DppTasks : Provisioner(d)) => uses' = uses /\ mainPc' \in MainPlaces \cup {mainPc}
  BY DEF Provisioner
<1>5. QED BY <1>1, <1>2, <1>3, <1>4 DEF Next

\* Every variable has its type; blinks do not run over.
THEOREM ConfigModeTypeCorrect == Spec => []TypeOK
<1>1. Init => TypeOK
  <2> SUFFICES ASSUME Init PROVE TypeOK
    OBVIOUS
  <2>1. IndicatorTypeOK
    <3>1. led \in Leds
      BY DEF Init, IndicatorInit, Leds
    <3>2. NoSnapshot \in Snapshots
      BY DEF NoSnapshot, Snapshots
    <3>3. dppPc \in [DppTasks -> DppPlaces] /\ snap \in [DppTasks -> Snapshots]
      BY <3>2 DEF Init, IndicatorInit, DppPlaces
    <3>4. QED BY <3>1, <3>3, Zenon DEF Init, IndicatorInit, IndicatorTypeOK, TimerPlaces
  <2>2. WebTypeOK
    <3>1. CountersOK
      BY DEF Init, WebInit, CountersOK
    <3>2. QED BY <3>1, Zenon DEF Init, WebInit, WebTypeOK, CountersOK
  <2>3. QED BY <2>1, <2>2 DEF Init, TypeOK, MainPlaces
<1>2. TypeOK /\ [Next]_vars => TypeOK'
  <2> SUFFICES ASSUME TypeOK, [Next]_vars PROVE TypeOK'
    OBVIOUS
  <2>1. CASE Next
    <3>1. IndicatorTypeOK' /\ WebTypeOK'
      BY <2>1, IndicatorSteps, IndicatorTypes, WebSteps, WebTypes, Zenon DEF TypeOK
    <3>2. QED BY <2>1, <3>1, MainMoves DEF TypeOK
  <2>2. CASE UNCHANGED vars
    <3>1. UNCHANGED indicatorVars /\ UNCHANGED webVars /\ UNCHANGED <<mainPc, uses>>
      BY <2>2 DEF vars
    <3>2. QED
      BY <3>1, IndicatorTypes, WebTypes DEF TypeOK, IndicatorStep, WebStep
  <2>3. QED BY <2>1, <2>2
<1>3. QED BY <1>1, <1>2, PTL DEF Spec

-----------------------------------------------------------------------------
\* The indicator

\* Without an effect the indicator is held on, and what is saved is steady.
Saved == {"breathe", "clear", "run", "blink", "restore"}

Held ==
  Lit /\ led.effect = "none" /\ ~led.timer_state =>
    /\ led.hold_on
    /\ led.mode = "light" => pwm = "light" \/ led.light_update

LampInv ==
  ~unsteady =>
    /\ \A d \in DppTasks : dppPc[d] \in Saved => snap[d].mode = "light" /\ snap[d].hold_on
    /\ led.mode = "flash" => pwm = "flash"
    /\ Held

\* What the operations leave of the fields the invariant reads.
FieldsAre(mode, hold_on, effect, timer_state) ==
  /\ led'.mode = mode /\ led'.hold_on = hold_on
  /\ led'.effect = effect /\ led'.timer_state = timer_state

LEMMA FlashFields ==
  ASSUME led \in Leds, FlashControl
  PROVE  /\ led'.hold_on = led.hold_on /\ led'.effect = led.effect
         /\ led'.timer_state = led.timer_state
         /\ \/ UNCHANGED ledVars
            \/ led'.mode = "light" /\ led'.light_update
            \/ led'.mode = "flash" /\ pwm' = "flash"
<1>1. CASE LightSample
  BY <1>1 DEF LightSample, Leds, ledVars
<1>2. CASE FlashOpen
  BY <1>2 DEF FlashOpen, Leds
<1>3. CASE FlashClose
  BY <1>3 DEF FlashClose, Leds, ledVars
<1>4. QED BY <1>1, <1>2, <1>3 DEF FlashControl

LEMMA TickFields ==
  ASSUME led \in Leds, PwmTimerCb
  PROVE  /\ FieldsAre(led.mode, led.hold_on, led.effect, led.timer_state)
         /\ led.light_update => led'.light_update
         /\ pwm' = pwm
BY DEF PwmTimerCb, Leds, FieldsAre

LEMMA BlinkFields ==
  ASSUME led \in Leds, NEW n, LedBlink(n)
  PROVE  led'.mode = led.mode /\ led'.effect = "blink" /\ pwm' = pwm
BY DEF LedBlink, Leds

LEMMA BreathFields ==
  ASSUME led \in Leds, NEW d \in DppTasks, DppBreathes(d)
  PROVE  led'.mode = led.mode /\ led'.effect = "breath" /\ pwm' = pwm
BY DEF DppBreathes, Leds

LEMMA RestoreFields ==
  ASSUME led \in Leds, NEW d \in DppTasks, DppRestores(d)
  PROVE  /\ FieldsAre(snap[d].mode, snap[d].hold_on, "none", FALSE)
         /\ led'.light_update /\ pwm' = pwm
BY DEF DppRestores, Leds, FieldsAre

LEMMA MiscFields ==
  ASSUME led \in Leds, MiscTask
  PROVE  /\ led'.mode = led.mode
         /\ led.mode = "flash" => pwm' = pwm
         /\ \/ /\ FieldsAre(led.mode, led.hold_on, led.effect, led.timer_state)
               /\ led.mode = "light" /\ led.hold_on =>
                    pwm' = IF led.light_update \/ led.effect = "breath" THEN "light" ELSE pwm
            \/ /\ FieldsAre(led.mode, TRUE, "none", FALSE)
               /\ led.mode = "light" => pwm' = "light"
BY DEF MiscTask, Blinked, Breathed, Leds, FieldsAre

SavedSteady ==
  \A d \in DppTasks : dppPc[d] \in Saved => snap[d].mode = "light" /\ snap[d].hold_on

FlashLit == led.mode = "flash" => pwm = "flash"

LEMMA LampParts == LampInv <=> (~unsteady => SavedSteady /\ FlashLit /\ Held)
BY Zenon DEF LampInv, SavedSteady, FlashLit

\* The indicator's half of a step
LampHalf == IndicatorStep /\ (Lit' => Lit)

LEMMA DppSavedSteady ==
  ASSUME IndicatorTypeOK, SavedSteady, NEW d \in DppTasks, DppStep(d), ~unsteady'
  PROVE  SavedSteady'
<1> USE DEF IndicatorTypeOK, DppGoes
<1>1. CASE DppSaves(d)
  <2>1. dppPc' = [dppPc EXCEPT ![d] = "breathe"] /\ led.mode = "light" /\ led.hold_on
    BY <1>1 DEF DppSaves, SteadilyLit
  <2>2. snap' = [snap EXCEPT ![d] = [mode |-> led.mode, hold_on |-> led.hold_on,
                                     light_state |-> led.light_state]]
    BY <1>1 DEF DppSaves
  <2>3. QED BY <2>1, <2>2 DEF SavedSteady
<1>2. CASE DppRestores(d)
  BY <1>2 DEF DppRestores, SavedSteady, Saved
<1>3. CASE ~DppSaves(d) /\ ~DppRestores(d)
  <2>1. snap' = snap /\ (dppPc'[d] \in Saved => dppPc[d] \in Saved)
    BY <1>3 DEF DppStep, DppLed, DoubleClick, DppGoesOn, DppBreathes, DppSucceeds, DppFails,
       DppBlinked, Saved
  <2>2. \A e \in DppTasks : e # d => dppPc'[e] = dppPc[e]
    BY <1>3 DEF DppStep, DppLed, DoubleClick, DppGoesOn, DppBreathes, DppSucceeds, DppFails,
       DppBlinked
  <2>3. QED BY <2>1, <2>2, Zenon DEF SavedSteady
<1>4. QED BY <1>1, <1>2, <1>3

LEMMA LampStep ==
  ASSUME IndicatorTypeOK, LampInv, LampHalf
  PROVE  LampInv'
<1> SUFFICES ASSUME ~unsteady' PROVE SavedSteady' /\ FlashLit' /\ Held'
  BY Zenon DEF LampInv, SavedSteady, FlashLit
<1> USE DEF RestUnchanged
<1>0. led \in Leds
  BY DEF IndicatorTypeOK
<1>1. (Lit' => Lit) /\ IndicatorStep
  BY DEF LampHalf
<1>2. ~unsteady
  <2>1. unsteady => unsteady'
    BY <1>1, Zenon DEF IndicatorStep, indicatorVars, OnlyTimerMoves, LedStep, CallbackStep,
       PwmTimerFires, PwmTimerCb, Click, ClickTaken, ClickBlinks, PressDown, PressUp, HoldArms,
       MiscTask, DppStep, DoubleClick, DppLed, DppGoesOn, DppSaves, DppBreathes, DppSucceeds,
       DppFails, DppBlinked, DppRestores
  <2>2. QED BY <2>1, Zenon
<1>3. SavedSteady /\ FlashLit /\ Held
  BY <1>2, LampParts, Zenon
<1>4. SavedSteady'
  <2>1. CASE UNCHANGED <<dppPc, snap>>
    BY <2>1, <1>3, Zenon DEF SavedSteady
  <2>2. CASE \E d \in DppTasks : DppStep(d)
    BY <2>2, <1>3, DppSavedSteady
  <2>3. QED
    BY <1>1, <2>1, <2>2, Zenon DEF IndicatorStep, indicatorVars, OnlyTimerMoves, LedStep,
       CallbackStep, PwmTimerFires, PwmTimerCb, Click, ClickTaken, ClickBlinks, PressDown, PressUp,
       HoldArms, MiscTask
<1>5. CASE UNCHANGED <<led, pwm>>
  BY <1>1, <1>3, <1>4, <1>5, Zenon DEF FlashLit, Held
<1>6. CASE FlashControl
  BY <1>0, <1>1, <1>3, <1>4, <1>6, FlashFields, Zenon DEF FlashLit, Held, ledVars
<1>7. CASE PwmTimerCb
  BY <1>0, <1>1, <1>3, <1>4, <1>7, TickFields, Zenon DEF FlashLit, Held, FieldsAre
<1>8. ASSUME NEW n, LedBlink(n) PROVE SavedSteady' /\ FlashLit' /\ Held'
  BY <1>0, <1>1, <1>3, <1>4, <1>8, BlinkFields DEF FlashLit, Held
<1>9. CASE MiscTask
  <2>1. FlashLit'
    BY <1>0, <1>3, <1>9, MiscFields DEF FlashLit
  <2>2. ASSUME Lit', led'.effect = "none", ~led'.timer_state
        PROVE  led'.hold_on /\ (led'.mode = "light" => pwm' = "light" \/ led'.light_update)
    <3>1. CASE /\ FieldsAre(led.mode, led.hold_on, led.effect, led.timer_state)
               /\ led.mode = "light" /\ led.hold_on =>
                    pwm' = IF led.light_update \/ led.effect = "breath" THEN "light" ELSE pwm
      <4>1. led.hold_on /\ (led.mode = "light" => pwm = "light" \/ led.light_update)
        BY <1>1, <1>3, <2>2, <3>1, Zenon DEF Held, FieldsAre
      <4>2. led.mode = "light" => pwm' = "light"
        BY <3>1, <4>1
      <4>3. QED BY <3>1, <4>1, <4>2, Zenon DEF FieldsAre
    <3>2. CASE /\ FieldsAre(led.mode, TRUE, "none", FALSE)
               /\ led.mode = "light" => pwm' = "light"
      BY <3>2, Zenon DEF FieldsAre
    <3>3. QED BY <1>0, <1>9, <3>1, <3>2, MiscFields, Zenon
  <2>3. QED BY <1>4, <2>1, <2>2, Zenon DEF Held
<1>10. ASSUME NEW d \in DppTasks, DppBreathes(d) PROVE SavedSteady' /\ FlashLit' /\ Held'
  BY <1>0, <1>1, <1>3, <1>4, <1>10, BreathFields DEF FlashLit, Held
<1>11. ASSUME NEW d \in DppTasks, DppRestores(d) PROVE SavedSteady' /\ FlashLit' /\ Held'
  <2>1. snap[d].mode = "light" /\ snap[d].hold_on
    BY <1>3, <1>11, Zenon DEF SavedSteady, Saved, DppRestores, DppGoes
  <2>2. QED BY <1>0, <1>4, <1>11, <2>1, RestoreFields DEF FlashLit, Held, FieldsAre
<1>12. QED
  BY <1>1, <1>5, <1>6, <1>7, <1>8, <1>9, <1>10, <1>11, Zenon DEF IndicatorStep, indicatorVars,
     OnlyTimerMoves, LedStep, CallbackStep, PwmTimerFires, ledVars, Click, ClickTaken, ClickBlinks,
     PressDown, PressUp, HoldArms, FlashControl, DppStep, DoubleClick, DppLed, DppGoesOn, DppSaves,
     DppSucceeds, DppFails, DppBlinked

\* Whatever comes over it, the indicator is held on in between, and the flash
\* mode means that the flash is lit.
THEOREM IndicatorIsSteady == Spec => []IndicatorStays
<1>1. Init => LampInv
  BY DEF Init, IndicatorInit, LampInv, Held, Lit, Saved
<1>2. TypeOK /\ LampInv /\ [Next]_vars => LampInv'
  <2> SUFFICES ASSUME TypeOK, LampInv, [Next]_vars PROVE LampInv'
    OBVIOUS
  <2>0. IndicatorTypeOK /\ led \in Leds
    BY DEF TypeOK, IndicatorTypeOK
  <2>1. CASE LedStep(LedAble) /\ mainPc = "config"
    <3>1. /\ led'.mode = led.mode /\ led'.hold_on /\ led'.light_update /\ pwm' = pwm
      BY <2>0, <2>1 DEF LedStep, LedAble, Leds
    <3>2. QED BY <2>1, <3>1, Zenon DEF LedStep, LampInv, Held
  <2>2. CASE LedStep(LedOff) /\ mainPc' = "dark"
    <3>1. led'.mode = "light"
      BY <2>2 DEF LedStep, LedOff
    <3>2. QED BY <2>2, <3>1 DEF LedStep, LampInv, Held, Lit
  <2>3. CASE IndicatorStep /\ (Lit' => Lit)
    BY <2>0, <2>3, LampStep DEF LampHalf
  <2>4. CASE UNCHANGED vars
    BY <2>4, Zenon DEF vars, indicatorVars, LampInv, Held, Lit, Over
  <2>5. QED BY <2>1, <2>2, <2>3, <2>4, IndicatorSteps
<1>3. LampInv => IndicatorStays
  BY Zenon DEF LampInv, Held, Lit, IndicatorStays
<1>4. QED BY <1>1, <1>2, <1>3, ConfigModeTypeCorrect, PTL DEF Spec

-----------------------------------------------------------------------------
\* The idle time

Limit == IF hasClient THEN WebTimeout ELSE ApTimeout

\* Nobody uses a device that is not open yet.
Unopened ==
  mainPc \in {"config", "http"} =>
    /\ timerTask \notin {"http_timer", "wifi_timer"} /\ "no_operation" \notin bits
    /\ apTimeoutSeconds = 0 /\ webPc = "idle"

\* The counters are not ahead of the time since the last use, in the middle of
\* a tick neither; once the bit is set, that time is long enough.
Counted ==
  /\ webTimeoutSeconds <= quiet
  /\ timerTask = "http_timer" => tick <= quiet
  /\ ~hasClient => apTimeoutSeconds <= quiet
  /\ ~hasClient /\ timerTask = "wifi_timer" => After(apTimeoutSeconds, ApTimeout) <= quiet
  /\ "no_operation" \in bits => quiet >= Limit

IdleInv == Unopened /\ (~asked /\ ~uncounted => Counted)

SameMain == mainPc' = mainPc /\ mainPc \notin {"config", "http"}
OpenMain == mainPc' \in {"config", "http"} => mainPc \in {"config", "http"}
SameTimer == timerTask' \in {"http_timer", "wifi_timer"} => timerTask' = timerTask

Ticks ==
  \/ HttpTickReads /\ timerTask' = "http_timer" /\ SameMain
  \/ HttpTickWrites /\ timerTask = "http_timer" /\ timerTask' # "http_timer" /\ mainPc' = mainPc
  \/ ApTick /\ timerTask = "wifi_timer" /\ timerTask' = "free" /\ mainPc' = mainPc

Uses ==
  /\ SameMain
  /\ \/ UseStep(Ticking) /\ timerTask' = timerTask
     \/ UpgradeBegins /\ timerTask' = timerTask

ClickCounts == SnapshotCounts /\ mainPc' = mainPc /\ timerTask' = "free"

Rests ==
  /\ OpenMain /\ SameTimer
  /\ \/ UNCHANGED webVars \/ WaitReturns \/ UpgradeFails \/ ApUser \/ TcpTest
     \/ \E yes \in BOOLEAN : ApOpen(yes) \/ Debug(yes) \/ DppBit(yes)

LEMMA SessionSteps ==
  Next => \/ Ticks \/ Uses \/ ClickCounts \/ Rests
          \/ HttpOpen /\ mainPc = "http" /\ mainPc' = "network" /\ timerTask' = timerTask
          \/ SleepAsked /\ mainPc' = mainPc /\ timerTask' = timerTask
<1> SUFFICES ASSUME Next
             PROVE  \/ Ticks \/ Uses \/ ClickCounts \/ Rests
                    \/ HttpOpen /\ mainPc = "http" /\ mainPc' = "network" /\ timerTask' = timerTask
                    \/ SleepAsked /\ mainPc' = mainPc /\ timerTask' = timerTask
  OBVIOUS
<1>1. CASE Main
  <2>1. CASE MainHttp
    BY <2>1 DEF MainHttp, MainGoes, indicatorVars
  <2>2. ASSUME ~MainHttp PROVE OpenMain /\ timerTask' = timerTask
    BY <1>1, <2>2 DEF Main, MainLed, MainNetwork, MainCamera, MainSnapshot, MainTaken,
       MainBits, MainWakes, MainDark, MainSleeps, MainGoes, OnlyLed, OpenMain, indicatorVars
  <2>3. ASSUME ~MainHttp PROVE Rests
    <3>1. ("access_point" \in uses) \in BOOLEAN
      OBVIOUS
    <3>2. QED
      BY <1>1, <2>2, <2>3, <3>1, Zenon DEF Main, MainLed, MainNetwork, MainCamera, MainSnapshot,
         MainTaken, MainBits, MainWakes, MainDark, MainSleeps, OnlyLed, Rests, SameTimer
  <2>4. QED BY <2>1, <2>3
<1>2. CASE Callback
  <2>1. mainPc' = mainPc
    BY <1>2 DEF Callback
  <2>2. CASE HttpTimer \/ WifiTimer
    BY <2>1, <2>2 DEF HttpTimer, WifiTimer, TimerGoes, Ticks
  <2>3. CASE OnlyIndicator(PwmTimerCb \/ ClickTaken)
    BY <2>1, <2>3 DEF OnlyIndicator, PwmTimerCb, ClickTaken, Rests, OpenMain, SameTimer
  <2>4. CASE ClickBlinks /\ SnapshotCounts
    BY <2>1, <2>4 DEF ClickBlinks, ClickCounts
  <2>5. QED BY <1>2, <2>2, <2>3, <2>4 DEF Callback
<1>3. CASE SecondPasses
  BY <1>3 DEF SecondPasses, Second, TimerGoes, Ticks, SameMain
<1>4. CASE LedFires \/ Misc
  BY <1>4 DEF LedFires, Misc, OnlyIndicator, PwmTimerFires, MiscTask, indicatorVars,
     Rests, OpenMain, SameTimer
<1>5. CASE WebEnds
  BY <1>5 DEF WebEnds, OnlyWeb, WebRestarts, indicatorVars, Rests, OpenMain, SameTimer
<1>6. CASE Use
  <2>1. SameMain \/ (WebRestarts /\ mainPc \notin {"config", "http"})
    BY <1>6 DEF Use, SameMain, Web, Console, Button, OnlyWeb, Light
  <2>2. CASE WebRestarts
    BY <2>2 DEF WebRestarts, indicatorVars, Rests, OpenMain, SameTimer
  <2>3. CASE Web /\ ~WebRestarts
    <3>1. timerTask' = timerTask
      BY <2>3, Zenon DEF Web, OnlyWeb, Light, indicatorVars
    <3>2. UseStep(Ticking) \/ UpgradeBegins \/ UpgradeFails
      BY <2>3, Zenon DEF Web, OnlyWeb, Light, UseStep
    <3>3. QED BY <2>1, <2>3, <3>1, <3>2, Zenon DEF Uses, Rests, OpenMain, SameTimer, SameMain
  <2>4. CASE Console \/ ("access_point" \in uses /\ OnlyWeb(ApUser))
    BY <2>4, Zenon DEF Console, OnlyWeb, indicatorVars, Rests, OpenMain, SameTimer
  <2>5. CASE Button
    <3>1. timerTask' \in {timerTask, "snapshot"}
      BY <2>5 DEF Button, Click, PressDown, PressUp, HoldArms, DoubleClick
    <3>2. QED BY <2>5, <3>1 DEF Button, Rests, OpenMain, SameTimer
  <2>6. QED BY <1>6, <2>2, <2>3, <2>4, <2>5 DEF Use
<1>7. CASE \E d \in DppTasks : Provisioner(d)
  <2>1. PICK d \in DppTasks : Provisioner(d)
    BY <1>7
  <2>2. mainPc' = mainPc /\ timerTask' = timerTask
    BY <2>1, Zenon DEF Provisioner, OnlyIndicator, DppLed, DppBits, DppGoesOn, DppSaves, DppBreathes,
       DppSucceeds, DppFails, DppBlinked, DppRestores
  <2>3. UNCHANGED webVars \/ \E yes \in BOOLEAN : DppBit(yes)
    BY <2>1, Zenon DEF Provisioner, OnlyIndicator, DppBits
  <2>4. QED BY <2>2, <2>3, Zenon DEF Rests, OpenMain, SameTimer
<1>8. QED BY <1>1, <1>2, <1>3, <1>4, <1>5, <1>6, <1>7, Zenon DEF Next

\* A step that leaves the counters alone and sets no bit that matters
LEMMA RestsIdle == CountersOK /\ IdleInv /\ Rests => IdleInv'
<1> SUFFICES ASSUME CountersOK, IdleInv, Rests PROVE IdleInv'
  OBVIOUS
<1>1. /\ UNCHANGED <<webTimeoutSeconds, tick, hasClient, apTimeoutSeconds, quiet>>
      /\ UNCHANGED <<uncounted, asked>>
      /\ webPc' \in {webPc, "idle"}
  BY Zenon DEF Rests, webVars, timeVars, historyVars, WaitReturns, UpgradeFails, ApUser, TcpTest,
     ApOpen, Debug, DppBit
<1>2. "no_operation" \in bits' => "no_operation" \in bits
  BY DEF Rests, webVars, WaitReturns, UpgradeFails, ApUser, TcpTest, ApOpen, Debug, DppBit
<1>3. OpenMain /\ SameTimer
  BY DEF Rests
<1>4. Unopened'
  BY <1>1, <1>2, <1>3 DEF IdleInv, Unopened, OpenMain, SameTimer
<1>5. Counted => Counted'
  BY <1>1, <1>2, <1>3, Zenon DEF Counted, Limit, SameTimer, After
<1>6. QED BY <1>1, <1>4, <1>5, Zenon DEF IdleInv

LEMMA TicksIdle == CountersOK /\ IdleInv /\ Ticks => IdleInv'
<1> SUFFICES ASSUME CountersOK, IdleInv, Ticks PROVE IdleInv'
  OBVIOUS
<1> USE DEF CountersOK
<1>1. CASE HttpTickReads /\ timerTask' = "http_timer" /\ SameMain
  <2>1. /\ tick' = webTimeoutSeconds
        /\ UNCHANGED <<webTimeoutSeconds, hasClient, apTimeoutSeconds, quiet, bits>>
        /\ UNCHANGED <<uncounted, asked>>
    BY <1>1, Zenon DEF HttpTickReads, historyVars
  <2>2. Counted => Counted'
    BY <1>1, <2>1, Zenon DEF Counted, Limit
  <2>3. QED BY <1>1, <2>1, <2>2 DEF IdleInv, Unopened, SameMain
<1>2. CASE HttpTickWrites /\ timerTask = "http_timer" /\ timerTask' # "http_timer"
           /\ mainPc' = mainPc
  <2>1. /\ webTimeoutSeconds' = After(tick, WebTimeout) /\ quiet' = After(quiet, WebTimeout)
        /\ UNCHANGED <<hasClient, apTimeoutSeconds, uncounted, asked>>
    BY <1>2, Zenon DEF HttpTickWrites
  <2>2. "no_operation" \in bits' => "no_operation" \in bits \/ tick >= WebTimeout
    BY <1>2 DEF HttpTickWrites
  <2>3. Limit \in 0 .. WebTimeout
    BY DEF Limit
  <2>4. Counted => Counted'
    <3> SUFFICES ASSUME Counted PROVE Counted'
      OBVIOUS
    <3>1. webTimeoutSeconds <= quiet /\ tick <= quiet
      BY <1>2, Zenon DEF Counted
    <3>2. webTimeoutSeconds' <= quiet' /\ quiet <= quiet' /\ quiet' <= WebTimeout
      BY <2>1, <3>1 DEF After
    <3>3. ~hasClient => After(apTimeoutSeconds, ApTimeout) <= quiet' /\ apTimeoutSeconds <= quiet'
      <4>1. ~hasClient => apTimeoutSeconds <= quiet
        BY Zenon DEF Counted
      <4>2. apTimeoutSeconds <= quiet =>
              After(apTimeoutSeconds, ApTimeout) <= quiet' /\ apTimeoutSeconds <= quiet'
        BY <2>1 DEF After
      <4>3. QED BY <4>1, <4>2
    <3>4. "no_operation" \in bits' => quiet' >= Limit
      <4>1. "no_operation" \in bits => quiet >= Limit
        BY Zenon DEF Counted
      <4>2. quiet' \in 0 .. WebTimeout
        BY <2>1 DEF After
      <4>3. tick >= WebTimeout => quiet' >= Limit
        BY <2>3, <3>1, <3>2, <4>2
      <4>4. quiet >= Limit => quiet' >= Limit
        BY <2>3, <3>2, <4>2
      <4>5. QED BY <2>2, <4>1, <4>3, <4>4, Zenon
    <3>5. Limit' = Limit
      BY <2>1 DEF Limit
    <3>6. QED BY <1>2, <2>1, <3>2, <3>3, <3>4, <3>5, Zenon DEF Counted, After
  <2>5. mainPc \notin {"config", "http"}
    BY <1>2 DEF IdleInv, Unopened
  <2>6. QED BY <1>2, <2>1, <2>4, <2>5, Zenon DEF IdleInv, Unopened
<1>3. CASE ApTick /\ timerTask = "wifi_timer" /\ timerTask' = "free" /\ mainPc' = mainPc
  <2>1. /\ apTimeoutSeconds' \in {0, After(apTimeoutSeconds, ApTimeout)}
        /\ UNCHANGED <<webTimeoutSeconds, tick, hasClient, quiet, uncounted, asked>>
    BY <1>3, Zenon DEF ApTick, historyVars
  <2>2. "no_operation" \in bits' =>
          "no_operation" \in bits \/ (~hasClient /\ apTimeoutSeconds' >= ApTimeout)
    BY <1>3 DEF ApTick
  <2>3. Counted => Counted'
    <3> SUFFICES ASSUME Counted PROVE Counted'
      OBVIOUS
    <3>1. ~hasClient => apTimeoutSeconds' <= quiet
      <4>1. ~hasClient => After(apTimeoutSeconds, ApTimeout) <= quiet
        BY <1>3, Zenon DEF Counted
      <4>2. QED BY <2>1, <4>1
    <3>2. "no_operation" \in bits' => quiet >= Limit
      <4>1. "no_operation" \in bits => quiet >= Limit
        BY Zenon DEF Counted
      <4>2. ~hasClient /\ apTimeoutSeconds' >= ApTimeout => quiet >= Limit
        <5>1. ~hasClient => Limit = ApTimeout
          BY DEF Limit
        <5>2. apTimeoutSeconds' \in 0 .. ApTimeout
          BY <2>1 DEF After
        <5>3. QED BY <3>1, <5>1, <5>2
      <4>3. QED BY <2>2, <4>1, <4>2
    <3>3. Limit' = Limit
      BY <2>1 DEF Limit
    <3>4. timerTask' \notin {"http_timer", "wifi_timer"}
      BY <1>3
    <3>5. QED BY <2>1, <3>1, <3>2, <3>3, <3>4, Zenon DEF Counted
  <2>4. mainPc \notin {"config", "http"}
    BY <1>3 DEF IdleInv, Unopened
  <2>5. QED BY <1>3, <2>1, <2>3, <2>4, Zenon DEF IdleInv, Unopened
<1>4. QED BY <1>1, <1>2, <1>3 DEF Ticks

LEMMA UsesIdle == CountersOK /\ IdleInv /\ (Uses \/ ClickCounts) => IdleInv'
<1> SUFFICES ASSUME CountersOK, IdleInv, Uses \/ ClickCounts PROVE IdleInv'
  OBVIOUS
<1> USE DEF CountersOK
<1>1. CASE Uses /\ UseStep(Ticking)
  <2>1. /\ webTimeoutSeconds' = 0 /\ hasClient' = TRUE /\ quiet' = 0
        /\ uncounted' = (Ticking \/ "no_operation" \in bits)
        /\ UNCHANGED bits
    BY <1>1, Zenon DEF UseStep, Request, LiveView, RequestEnd, ClearTimeout, Used
  <2>2. SameMain /\ timerTask' = timerTask
    BY <1>1 DEF Uses
  <2>3. ~uncounted' => timerTask # "http_timer" /\ "no_operation" \notin bits
    BY <2>1, Zenon DEF Ticking
  <2>4. 0 <= 0
    OBVIOUS
  <2>5. ~uncounted' => Counted'
    BY <2>1, <2>2, <2>3, <2>4, Zenon DEF Counted
  <2>6. QED BY <2>2, <2>5, Zenon DEF IdleInv, Unopened, SameMain
<1>2. CASE Uses /\ UpgradeBegins
  <2>1. uncounted' = TRUE /\ SameMain
    BY <1>2 DEF Uses, UpgradeBegins
  <2>2. QED BY <2>1, Zenon DEF IdleInv, Unopened, SameMain
<1>3. CASE ClickCounts
  <2>1. /\ webTimeoutSeconds' = 0 /\ apTimeoutSeconds' = 0 /\ quiet' = 0
        /\ uncounted' = (FALSE \/ "no_operation" \in bits)
        /\ UNCHANGED <<bits, webPc>>
        /\ timerTask' = "free" /\ mainPc' = mainPc
    BY <1>3, Zenon DEF ClickCounts, SnapshotCounts, Used
  <2>2. ~uncounted' => "no_operation" \notin bits
    BY <2>1, Zenon
  <2>3. timerTask' \notin {"http_timer", "wifi_timer"}
    BY <2>1
  <2>4. 0 <= 0
    OBVIOUS
  <2>5. ~uncounted' => Counted'
    BY <2>1, <2>2, <2>3, <2>4, Zenon DEF Counted
  <2>6. Unopened'
    BY <2>1, <2>3, Zenon DEF IdleInv, Unopened
  <2>7. QED BY <2>5, <2>6, Zenon DEF IdleInv
<1>4. QED BY <1>1, <1>2, <1>3 DEF Uses

\* The device sleeps only when nobody has used it for the limit that applies,
\* or when it was asked to, or when the last use was one of those that the code
\* does not count.
THEOREM SleepsOnlyWhenUnused == Spec => SleepsWhenUnused
<1>1. Init => IdleInv
  BY DEF Init, IndicatorInit, WebInit, IdleInv, Unopened, Counted, After
<1>2. TypeOK /\ IdleInv /\ [Next]_vars => IdleInv'
  <2> SUFFICES ASSUME TypeOK, IdleInv, [Next]_vars PROVE IdleInv'
    OBVIOUS
  <2>0. CountersOK
    BY DEF TypeOK, WebTypeOK, CountersOK
  <2>1. CASE HttpOpen /\ mainPc = "http" /\ mainPc' = "network" /\ timerTask' = timerTask
    <3>1. /\ webTimeoutSeconds' = 0 /\ quiet' = 0 /\ apTimeoutSeconds' = 0
      BY <2>1 DEF HttpOpen, IdleInv, Unopened
    <3>2. "no_operation" \notin bits' /\ timerTask' \notin {"http_timer", "wifi_timer"}
      BY <2>1 DEF HttpOpen, IdleInv, Unopened
    <3>3. 0 <= 0
      OBVIOUS
    <3>4. Counted'
      BY <3>1, <3>2, <3>3, Zenon DEF Counted
    <3>5. Unopened'
      BY <2>1 DEF Unopened
    <3>6. QED BY <3>4, <3>5, Zenon DEF IdleInv
  <2>2. CASE SleepAsked /\ mainPc' = mainPc /\ timerTask' = timerTask
    <3>1. asked' = TRUE /\ mainPc \notin {"config", "http"}
      BY <2>2 DEF SleepAsked, IdleInv, Unopened
    <3>2. QED BY <2>2, <3>1, Zenon DEF IdleInv, Unopened
  <2>3. CASE Next
    BY <2>0, <2>1, <2>2, <2>3, SessionSteps, TicksIdle, UsesIdle, RestsIdle, Zenon
  <2>4. CASE UNCHANGED vars
    <3>1. Rests
      BY <2>4, Zenon DEF vars, indicatorVars, webVars, timeVars, historyVars, Rests, OpenMain, SameTimer
    <3>2. QED BY <2>0, <3>1, RestsIdle, Zenon
  <2>5. QED BY <2>3, <2>4
<1>3. IdleInv /\ [Next]_vars =>
        [mainPc = "wait" /\ mainPc' = "sleep" =>
           asked \/ uncounted \/ quiet >= (IF hasClient THEN WebTimeout ELSE ApTimeout)]_vars
  <2> SUFFICES ASSUME IdleInv, Next, mainPc = "wait", mainPc' = "sleep"
               PROVE  asked \/ uncounted \/ quiet >= Limit
    BY DEF Limit, vars
  <2>1. MainWakes
    BY DEF Next, Main, MainLed, MainHttp, MainNetwork, MainCamera, MainSnapshot, MainTaken,
       MainBits, MainDark, MainSleeps, MainGoes, Callback, SecondPasses, LedFires, Misc, WebEnds,
       WebRestarts, Use, Web, Console, Button, OnlyWeb, Light, Provisioner
  <2>2. "no_operation" \in bits
    BY <2>1 DEF MainWakes, WaitReturns, SessionBits
  <2>3. QED BY <2>2, Zenon DEF IdleInv, Counted
<1>4. QED BY <1>1, <1>2, <1>3, ConfigModeTypeCorrect, PTL DEF Spec, SleepsWhenUnused

=============================================================================
