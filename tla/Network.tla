-------------------------------- MODULE Network --------------------------------
(***************************************************************************)
(* One boot of the network: the main task opens the module that is fitted, *)
(* works and goes to deep sleep, next to the event task, the modules'      *)
(* drivers, the start tasks of the LTE module, the web page that tries new *)
(* credentials, and the provisioning tasks.  A boot ends in deep sleep or  *)
(* with a panic; the half-hour limit of the wait for sleep is left out.    *)
(***************************************************************************)
EXTENDS Dpp, Cat1

vars == <<netVars, wifiVars, dppVars, cat1Vars>>

Awake == mainPc \notin {"asleep", "panic"}

Init ==
  /\ NetInit /\ WifiInit /\ DppInit /\ Cat1Init

\* handle_config_mode: nothing is provisioned until a double click clears the
\* bit.  The other modes do not look at the bit.
MainWaits ==
  /\ mainPc = "opened"
  /\ mainPc' = "waiting"
  /\ IF config THEN SetDppDone ELSE UNCHANGED <<dppDone, overlap>>
  /\ UNCHANGED <<fitted, config, events, handling, pushOn, lateStop,
                 wifiVars, dppPc, dppRunning, cat1Vars>>

\* sleep_wait_event_bits, as soon as the other bits are set
MainSleeps ==
  /\ mainPc = "waiting"
  /\ config => dppDone
  /\ mainPc' = "asleep"
  /\ UNCHANGED <<fitted, config, events, handling, pushOn, lateStop,
                 wifiVars, dppVars, cat1Vars>>

Work == MainWaits \/ MainSleeps

StaOpens == WifiOpen \/ WifiRetry \/ WifiOpened

\* The steps with the ESP32's Wi-Fi or HaLow, and those with LTE.
OnlyWifi(A) == Awake /\ fitted # "cat1" /\ A /\ UNCHANGED cat1Vars
OnlyLte(A) == Awake /\ fitted = "cat1" /\ A /\ UNCHANGED <<wifiVars, dppVars>>

Main ==
  \/ OnlyWifi(StaOpens /\ UNCHANGED dppVars)
  \/ OnlyLte(LteOpen \/ LteWait("main") \/ LteOpened)
EventTask ==
  \/ OnlyWifi(StaHandler /\ UNCHANGED dppVars)
  \/ OnlyLte(HandleLteEvent)
  \/ Awake /\ writing = "none" /\ HandlePush /\ UNCHANGED <<wifiVars, dppVars, cat1Vars>>
WebPage ==
  \/ OnlyWifi((ReconnectStep("http") \/ HttpReconnected) /\ UNCHANGED dppVars)
  \/ OnlyLte(LteRestart \/ LteWait("http"))
Provisioner(d) ==
  OnlyWifi(DppStep(d) \/ (ReconnectStep("dpp") /\ UNCHANGED dppVars))

\* What happens if it happens.
Outside ==
  \/ OnlyWifi((Driver \/ HttpReconnect) /\ UNCHANGED dppVars)
  \/ OnlyWifi(\E d \in DppTasks : DoubleClick(d))
  \/ OnlyLte(Modem \/ HttpRestart)
  \/ Awake /\ Work

Next ==
  \/ Main \/ EventTask \/ WebPage \/ Outside
  \/ \E d \in DppTasks : Provisioner(d)
  \/ \E s \in Openers : OnlyLte(StarterStep(s))

Spec == Init /\ [][Next]_vars

\* The tasks are scheduled, and their waits have timeouts.  A provisioning task
\* that waits to post an event gets its turn, however often others post.
Fairness ==
  /\ WF_vars(Main) /\ WF_vars(EventTask)
  /\ \A d \in DppTasks : SF_vars(Provisioner(d))

FairSpec == Spec /\ Fairness

-----------------------------------------------------------------------------
TypeOK == NetTypeOK /\ WifiTypeOK /\ DppTypeOK /\ Cat1TypeOK

IsUp == IF fitted = "cat1" THEN ppp = "up" ELSE sta = "up"

\* Nothing is on its way to the transport.
Quiet ==
  /\ events = <<>> /\ handling = "none"
  /\ \A c \in Openers : lteCall[c] \notin {"destroy", "open"}
  /\ \A d \in DppTasks : ~Provisioning(d)

\* The transport follows the network whatever the order of opening, losing and
\* restarting: with every event handled it is started only while the network is
\* up, and it is stopped while the network is up only if a task that gave up on
\* the network (cat1_wait_open), or began to provision, stopped it too late.
PushFollowsNetwork ==
  Quiet => /\ pushOn => IsUp
           /\ IsUp => pushOn \/ lateStop

\* The handlers alternate: the event task starts the transport only if, since it
\* last did, it was told of the loss and stopped it, however many events were
\* in the queue and whichever task stopped the transport meanwhile.
StartsAfterStop == handling = "push_start" => ~pushOn /\ ~lateStop

\* SLEEP_DPP_DONE_BIT: "DPP complete".  The device does not go to sleep in the
\* middle of a provisioning, unless the bit was set by another task.
SleepsWithoutDpp ==
  [][mainPc' = "asleep" /\ mainPc # "asleep"
       => overlap \/ \A d \in DppTasks : ~Provisioning(d)]_vars

\* However the provisioning ends, the device may sleep again.
DppEnds ==
  (\E d \in DppTasks : Provisioning(d)) ~> dppDone \/ ~Awake

\* netModule_open returns, with or without a network.
OpenReturns == mainPc = "open" ~> mainPc \in {"opened", "waiting"} \/ ~Awake
=============================================================================
