------------------------------ MODULE NetEvents -------------------------------
(***************************************************************************)
(* What the network modules share in one boot: the module that is fitted   *)
(* (net_module.c), the queue of the default event loop with the one task   *)
(* that handles it, and whether the push transport is started.             *)
(*                                                                         *)
(* A handler changes the event bits at once, but may then wait for an NTP  *)
(* server (system_ntp_time, up to ten seconds) before it starts the push   *)
(* transport: events that come meanwhile stay in the queue.                *)
(***************************************************************************)
EXTENDS Naturals, Sequences, FiniteSets

CONSTANTS
  Fitted,          \* modules explored, of "wifi", "halow", "cat1"
  EventQueueSize,  \* events that fit the loop; a driver that has one more waits
  NetFaults        \* what may go wrong, of NetFaultNames

\* slow_events: an event takes more than WIFI_STA_DISCONNECT_TIMEOUT_MS, 2 s.
NetFaultNames == {"fail", "drop", "slow_events", "memory"}

ASSUME FittedAssumption == Fitted \subseteq {"wifi", "halow", "cat1"}
ASSUME EventQueueAssumption == EventQueueSize \in Nat \ {0}
ASSUME NetFaultsAssumption == NetFaults \subseteq NetFaultNames

VARIABLES
  fitted,    \* g_NetModule.mode
  config,    \* main_mode is MODE_CONFIG
  mainPc,    \* the main task: netModule_open, then its work, then deep sleep
  events,    \* posted and not yet handled
  handling,  \* what the handler in progress has still to call
  pushOn,    \* the network's last call of push_start or push_stop was push_start;
             \* the calls of a push_restart after new settings are in Transport
  lateStop   \* history: a StopLate undid the last push_start

netVars == <<fitted, config, mainPc, events, handling, pushOn, lateStop>>

EventNames ==
  {"sta_start", "disconnected", "connected", "got_ip", "ppp_got_ip", "ppp_up", "ppp_lost"}

CanPost == Len(events) < EventQueueSize
Post(e) == events' = Append(events, e)
PostIf(condition, e) == events' = IF condition THEN Append(events, e) ELSE events

\* A push_stop, by another task than the event task, which no event of the
\* network may follow: it may undo a push_start of the event task.
StopLate == pushOn' = FALSE /\ lateStop' = (lateStop \/ pushOn)

\* The handler's call of push_start, after NTP, or of push_stop.
HandlePush ==
  /\ handling # "none"
  /\ pushOn' = (handling = "push_start")
  /\ lateStop' = FALSE
  /\ handling' = "none"
  /\ UNCHANGED <<fitted, config, mainPc, events>>

NetInit ==
  /\ fitted \in Fitted
  /\ config \in BOOLEAN
  /\ mainPc = "open"
  /\ events = <<>> /\ handling = "none"
  /\ pushOn = FALSE /\ lateStop = FALSE

NetTypeOK ==
  /\ fitted \in Fitted /\ config \in BOOLEAN
  /\ mainPc \in {"open", "retry", "lte", "opened", "waiting", "asleep", "panic"}
  /\ events \in Seq(EventNames)
  /\ handling \in {"none", "push_start", "push_stop"}
  /\ pushOn \in BOOLEAN /\ lateStop \in BOOLEAN
=============================================================================
