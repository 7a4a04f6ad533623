------------------------------ MODULE Transport -------------------------------
(***************************************************************************)
(* Starting, stopping and changing the push transport: push_start,         *)
(* push_stop and push_restart of push.c over the MQTT client of mqtt.c.    *)
(* Five tasks call them: the web server, the event task of the network,    *)
(* the one-shot timer of mqtt.c, the main task as it goes to sleep or a    *)
(* task that gives up on the network, and the client's own task when an    *)
(* onboarding message changes the push mode.                               *)
(*                                                                         *)
(* esp-mqtt is taken as its interface says: esp_mqtt_client_stop returns   *)
(* when the client's task is outside its event handler, so it must not be  *)
(* called from there; without auto-reconnect a client that lost its broker *)
(* stays as it is.  push_ready, push_exit and the upload bits, which are   *)
(* all that webhook_start and webhook_stop touch, are in modules Push and  *)
(* Storage and left out here.  An onboarding message that changes several  *)
(* settings is a sequence of messages.                                     *)
(***************************************************************************)
EXTENDS Integers, FiniteSets

CONSTANTS Faults   \* what may happen, of TransportFaults

\* web_mode, onboard_mode: the web page or a message changes the push mode.
TransportFaults == {"init", "web_mode", "onboard_mode"}

ASSUME TransportFaultsAssumption == Faults \subseteq TransportFaults

VARIABLES
  pushMode,      \* KEY_PUSH_MODE: 0 MQTT, 1 webhook
  link,          \* the network is up
  sleeping,      \* g_sleep.bSleeping
  timerArmed,    \* s_restart_timer is running
  mutex,         \* holder of g_MQ.mutex, or "free"
  client,        \* g_MQ.client: "null", "ok", or "dangling" once destroyed
  conn,          \* the client's task: its connection, or that there is none
  isConnected,
  pc, op, again, \* what each caller is doing, see Callers
  live           \* history: clients that exist

vars == <<pushMode, link, sleeping, timerArmed, mutex, client, conn,
          isConnected, pc, op, again, live>>
mqtt == <<client, conn, isConnected, live>>
outside == <<pushMode, link, sleeping>>

Callers == {"http", "event", "timer", "main", "client"}

\* pc[c] is where c is inside push_start, push_stop or the mqtt_ operation
\* op[c]; again[c] says that the push_start of a push_restart is still to come.
Places == {"idle", "check", "push_stop", "push_start", "lock", "held", "stopping",
           "destroyed", "create", "unlock"}
Ops == {"none", "mqtt_start", "mqtt_stop", "mqtt_restart"}

Idle == [c \in Callers |-> "idle"]
NoOp == [c \in Callers |-> "none"]
Never == [c \in Callers |-> FALSE]

Init ==
  /\ pushMode \in {0, 1}
  /\ link = FALSE /\ sleeping = FALSE
  /\ timerArmed = FALSE /\ mutex = "free"
  /\ client = "null" /\ conn = "none" /\ isConnected = FALSE /\ live = 0
  /\ pc = Idle /\ op = NoOp /\ again = Never

Goto(c, from, to) == pc[c] = from /\ pc' = [pc EXCEPT ![c] = to]
Call(c, place, restart) ==
  /\ Goto(c, "idle", place)
  /\ again' = [again EXCEPT ![c] = restart]

\* Where c goes when its call returns.
Return(c) ==
  /\ pc' = [pc EXCEPT ![c] = IF again[c] THEN "push_start" ELSE "idle"]
  /\ again' = [again EXCEPT ![c] = FALSE]
  /\ op' = [op EXCEPT ![c] = "none"]

-----------------------------------------------------------------------------
\* push.c

\* push_stop: which transport is stopped is read from the settings of now.
PushStop(c) ==
  /\ pc[c] = "push_stop"
  /\ IF pushMode = 1
     THEN Return(c) /\ UNCHANGED timerArmed
     ELSE /\ pc' = [pc EXCEPT ![c] = "lock"]
          /\ op' = [op EXCEPT ![c] = "mqtt_stop"]
          /\ timerArmed' = FALSE
          /\ UNCHANGED again
  /\ UNCHANGED <<outside, mqtt, mutex>>

PushStart(c) ==
  /\ pc[c] = "push_start"
  /\ IF pushMode = 1
     THEN Return(c)
     ELSE /\ pc' = [pc EXCEPT ![c] = "lock"]
          /\ op' = [op EXCEPT ![c] = "mqtt_start"]
          /\ UNCHANGED again
  /\ UNCHANGED <<outside, mqtt, mutex, timerArmed>>

-----------------------------------------------------------------------------
\* mqtt_start, mqtt_stop and mqtt_restart, under g_MQ.mutex

(* Mutant of Lock: the mutex is not waited for. *)
LockUnchecked(c) ==
  /\ Goto(c, "lock", "held")
  /\ mutex' = c
  /\ UNCHANGED <<outside, mqtt, timerArmed, op, again>>

Lock(c) ==
  /\ mutex = "free"
  /\ Goto(c, "lock", "held")
  /\ mutex' = c
  /\ UNCHANGED <<outside, mqtt, timerArmed, op, again>>

\* What to do once the mutex is held.
Todo(c) ==
  CASE op[c] = "mqtt_start"   -> IF client = "null" THEN "create" ELSE "unlock"
    [] op[c] = "mqtt_stop"    -> IF client = "null" THEN "unlock" ELSE "stopping"
    [] op[c] = "mqtt_restart" -> IF client = "null" THEN "create" ELSE "stopping"

Decide(c) ==
  /\ Goto(c, "held", Todo(c))
  /\ UNCHANGED <<outside, mqtt, mutex, timerArmed, op, again>>

HandlerIdle == pc["client"] = "idle"

\* Once it is told to stop, the client's task handles no further message.
ClientRuns == HandlerIdle /\ \A c \in Callers : pc[c] # "stopping"

\* mqtt_esp_stop: disconnect and stop, which waits for the client's task to be
\* out of its event handler, then destroy.
StopClient(c) ==
  /\ HandlerIdle
  /\ Goto(c, "stopping", "destroyed")
  /\ client' = "dangling"
  /\ conn' = "none"
  /\ live' = live - 1
  /\ UNCHANGED <<outside, isConnected, mutex, timerArmed, op, again>>

(* Mutant of ForgetClient: mqtt_restart returns with the mutex. *)
ForgetClientKeepsLock(c) ==
  /\ Goto(c, "destroyed", IF op[c] = "mqtt_restart" THEN "create" ELSE "idle")
  /\ client' = "null"
  /\ isConnected' = FALSE
  /\ UNCHANGED <<outside, conn, live, mutex, timerArmed, op, again>>

(* Mutant of ForgetClient: isConnected is left as it was. *)
ForgetClientConnected(c) ==
  /\ Goto(c, "destroyed", IF op[c] = "mqtt_restart" THEN "create" ELSE "unlock")
  /\ client' = "null"
  /\ UNCHANGED <<outside, isConnected, conn, live, mutex, timerArmed, op, again>>

\* The certificates are freed before g_MQ.client and isConnected are reset.
ForgetClient(c) ==
  /\ Goto(c, "destroyed", IF op[c] = "mqtt_restart" THEN "create" ELSE "unlock")
  /\ client' = "null"
  /\ isConnected' = FALSE
  /\ UNCHANGED <<outside, conn, live, mutex, timerArmed, op, again>>

\* mqtt_esp_start.  There may be no memory for a client.
CreateClient(c) ==
  /\ Goto(c, "create", "unlock")
  /\ \/ client' = "ok" /\ conn' = "connecting" /\ live' = live + 1
     \/ "init" \in Faults /\ client' = "null" /\ UNCHANGED <<conn, live>>
  /\ UNCHANGED <<outside, isConnected, mutex, timerArmed, op, again>>

Unlock(c) ==
  /\ pc[c] = "unlock"
  /\ mutex' = "free"
  /\ Return(c)
  /\ UNCHANGED <<outside, mqtt, timerArmed>>

-----------------------------------------------------------------------------
\* mqtt_event_handler_cb, in the client's task

Connected ==
  /\ ClientRuns /\ link
  /\ conn = "connecting" /\ conn' = "up"
  /\ isConnected' = TRUE
  /\ UNCHANGED <<outside, client, live, mutex, timerArmed, pc, op, again>>

Subscribed ==
  /\ ClientRuns
  /\ conn = "up" /\ conn' = "subscribed"
  /\ UNCHANGED <<outside, client, isConnected, live, mutex, timerArmed, pc, op, again>>

\* The broker or the network is gone, or was never reached.
Disconnected ==
  /\ HandlerIdle
  /\ conn \in {"connecting", "up", "subscribed"} /\ conn' = "down"
  /\ isConnected' = FALSE
  /\ UNCHANGED <<outside, client, live, mutex, timerArmed, pc, op, again>>

(* Mutant of DataBroker: the client is restarted from its own handler. *)
DataBrokerAtOnce ==
  /\ ClientRuns /\ conn = "subscribed"
  /\ Call("client", "lock", FALSE)
  /\ op' = [op EXCEPT !["client"] = "mqtt_restart"]
  /\ UNCHANGED <<outside, mqtt, mutex, timerArmed>>

\* MQTT_EVENT_DATA: new MQTT settings arm the timer, which may be armed
\* already; a new push mode restarts the transport from the handler.
DataBroker ==
  /\ ClientRuns /\ conn = "subscribed"
  /\ timerArmed' = TRUE
  /\ UNCHANGED <<outside, mqtt, mutex, pc, op, again>>

DataPushMode ==
  /\ "onboard_mode" \in Faults
  /\ ClientRuns /\ conn = "subscribed"
  /\ pushMode' = 1 - pushMode
  /\ Call("client", "push_stop", TRUE)
  /\ UNCHANGED <<link, sleeping, mqtt, mutex, timerArmed, op>>

-----------------------------------------------------------------------------
\* The callers

\* mqtt_restart_timer_cb
TimerFires ==
  /\ timerArmed
  /\ Call("timer", "check", FALSE)
  /\ timerArmed' = FALSE
  /\ UNCHANGED <<outside, mqtt, mutex, op>>

TimerCheck ==
  /\ Goto("timer", "check", IF sleeping THEN "idle" ELSE "lock")
  /\ op' = IF sleeping THEN op ELSE [op EXCEPT !["timer"] = "mqtt_restart"]
  /\ UNCHANGED <<outside, mqtt, mutex, timerArmed, again>>

\* The handlers of wifi.c and cat1.c.  They start the transport again only after
\* they stopped it: StartsAfterStop in module Network.
LinkUp ==
  /\ ~link /\ link' = TRUE
  /\ Call("event", "push_start", FALSE)
  /\ UNCHANGED <<pushMode, sleeping, mqtt, mutex, timerArmed, op>>

\* A failed attempt to connect is told of like a link that is lost.
LinkDown ==
  /\ link' = FALSE
  /\ Call("event", "push_stop", FALSE)
  /\ UNCHANGED <<pushMode, sleeping, mqtt, mutex, timerArmed, op>>

\* cat1_wait_open, cat1_restart or dpp_pb_task, whether the network is up or not.
\* Bound: one of the three at a time, which stands at the main task's place; the
\* main task waits for the other tasks' bits before it goes to sleep.
NetworkStops ==
  /\ ~sleeping
  /\ Call("main", "push_stop", FALSE)
  /\ UNCHANGED <<outside, mqtt, mutex, timerArmed, op>>

\* set_mqtt_param_handle and set_webhook_param_handle.  The link may be lost
\* once it was looked at; with LTE it is not looked at.
WebRestart ==
  /\ Call("http", "push_stop", TRUE)
  /\ UNCHANGED <<outside, mqtt, mutex, timerArmed, op>>

\* set_push_mode_handle stores the mode and leaves the transport alone.
WebPushMode ==
  /\ "web_mode" \in Faults
  /\ pc["http"] = "idle"
  /\ pushMode' = 1 - pushMode
  /\ UNCHANGED <<link, sleeping, mqtt, mutex, timerArmed, pc, op, again>>

\* sleep_wait_event_bits returns; sleep_start stops the transport and sleeps.
SleepBegins ==
  /\ ~sleeping /\ sleeping' = TRUE
  /\ Call("main", "push_stop", FALSE)
  /\ UNCHANGED <<pushMode, link, mqtt, mutex, timerArmed, op>>

\* Everything but the settings is lost.
DeepSleep ==
  /\ sleeping /\ pc["main"] = "idle"
  /\ link' = FALSE /\ sleeping' = FALSE
  /\ timerArmed' = FALSE /\ mutex' = "free"
  /\ client' = "null" /\ conn' = "none" /\ isConnected' = FALSE /\ live' = 0
  /\ pc' = Idle /\ op' = NoOp /\ again' = Never
  /\ UNCHANGED pushMode

-----------------------------------------------------------------------------
CallStep(c) ==
  PushStop(c) \/ PushStart(c) \/ Lock(c) \/ Decide(c) \/ StopClient(c)
  \/ ForgetClient(c) \/ CreateClient(c) \/ Unlock(c)

Events == Connected \/ Subscribed \/ Disconnected \/ DataBroker \/ DataPushMode
Environment ==
  \/ TimerFires \/ LinkUp \/ LinkDown \/ WebRestart \/ WebPushMode \/ SleepBegins
  \/ NetworkStops

Next ==
  \/ \E c \in Callers : CallStep(c)
  \/ TimerCheck \/ DeepSleep \/ Events \/ Environment

Spec == Init /\ [][Next]_vars

\* A task that can run runs, and FreeRTOS hands a mutex that is given to a task
\* that waits for it: strong fairness.  The user, the network and the broker do
\* as they like.
Fairness ==
  /\ \A c \in Callers : WF_vars(CallStep(c)) /\ SF_vars(Lock(c))
  /\ WF_vars(TimerCheck)
  /\ WF_vars(DeepSleep)

FairSpec == Spec /\ Fairness

-----------------------------------------------------------------------------
TypeOK ==
  /\ pushMode \in {0, 1}
  /\ link \in BOOLEAN /\ sleeping \in BOOLEAN /\ timerArmed \in BOOLEAN
  /\ mutex \in Callers \cup {"free"}
  /\ client \in {"null", "ok", "dangling"}
  /\ conn \in {"none", "connecting", "up", "subscribed", "down"}
  /\ isConnected \in BOOLEAN
  /\ pc \in [Callers -> Places]
  /\ op \in [Callers -> Ops]
  /\ again \in [Callers -> BOOLEAN]
  /\ live \in Int

\* Five tasks start, stop and restart the client, and yet there is never more
\* than one, none is forgotten, and none is destroyed twice: the clients that
\* exist are what g_MQ.client says.
OneClient == live = IF client = "ok" THEN 1 ELSE 0

\* The client's task is about to stop or start the client, itself, because a
\* message changed the push mode (or the web page did while it was handled).
RestartsItself ==
  /\ pc["client"] \in {"lock", "stopping"}
  /\ op["client"] \in {"mqtt_stop", "mqtt_start"}

\* isConnected, which the push task goes by, is true of a client that is up.
\* It lags behind only inside mqtt_esp_stop, between destroying the client and
\* forgetting it.
ConnectedIsTrue ==
  isConnected => conn \in {"up", "subscribed"} \/ client = "dangling"

\* Every call of push_start, push_stop, push_restart and mqtt_restart returns,
\* whoever makes it, although a task that stops the client keeps the mutex
\* while it waits for the client's task.  The one exception is RestartsItself,
\* where the two may wait for each other.
CallsReturn ==
  \A c \in Callers \ {"main"} : pc[c] # "idle" ~> pc[c] = "idle" \/ RestartsItself

\* The same for the main task: a device that decided to sleep does sleep.
SleepCompletes == sleeping ~> ~sleeping \/ RestartsItself

\* docs/onboarding-json.md: push mode 1 is the webhook.  When nobody is busy
\* changing the transport, the webhook is then the only one.  The code does not
\* guarantee this: push_stop stops what is configured now.
OnlyTheWebhook ==
  (pushMode = 1 /\ \A c \in Callers : pc[c] = "idle") => client = "null"
=============================================================================
