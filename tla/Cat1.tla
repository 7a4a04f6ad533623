--------------------------------- MODULE Cat1 ---------------------------------
(***************************************************************************)
(* The LTE module of cat1.c: the task that starts it, the wait for the     *)
(* connection, and cat1_restart, which the web page calls when the         *)
(* cellular parameters are saved.  The web server is up before the LTE     *)
(* module is opened, so that a restart may meet the first start task.      *)
(*                                                                         *)
(* The modem library is taken as its interface says: a command on a null   *)
(* dce fails, and destroying a connected one tells of the lost address.    *)
(***************************************************************************)
EXTENDS NetEvents

VARIABLES
  dce,      \* g_cat1.dce
  ppp,      \* the connection
  lteBits,  \* g_cat1.event_group; CAT1_POWER_ON_BIT is never set
  starter,  \* task_start_modem, one for each caller of cat1_open
  lteCall   \* cat1_restart, and cat1_wait_open, of each caller

cat1Vars == <<dce, ppp, lteBits, starter, lteCall>>

Openers == {"main", "http"}
StarterPlaces == {"none", "clear", "baud", "attach", "dial"}
LteCallPlaces == {"idle", "destroy", "open", "wait", "stop"}

StarterGoes(s, from, to) ==
  starter[s] = from /\ starter' = [starter EXCEPT ![s] = to]
LteGoes(c, from, to) ==
  lteCall[c] = from /\ lteCall' = [lteCall EXCEPT ![c] = to]

-----------------------------------------------------------------------------
\* The network the modem talks to

\* Two posts, one after the other.  The second may have to wait for room, and
\* stands in the queue meanwhile: nobody else posts before it.
PppUp ==
  /\ ppp = "dialing" /\ CanPost
  /\ ppp' = "up"
  /\ events' = Append(Append(events, "ppp_got_ip"), "ppp_up")

\* The network refuses, or the modem is told nothing more.
PppFails ==
  /\ "fail" \in NetFaults /\ ppp = "dialing"
  /\ ppp' = "down"
  /\ UNCHANGED events

\* Nothing dials again.
PppDrops ==
  /\ "drop" \in NetFaults /\ ppp = "up" /\ CanPost
  /\ ppp' = "down"
  /\ Post("ppp_lost")

Modem ==
  /\ PppUp \/ PppFails \/ PppDrops
  /\ UNCHANGED <<fitted, config, mainPc, handling, pushOn, lateStop,
                 dce, lteBits, starter, lteCall>>

-----------------------------------------------------------------------------
\* on_ip_event and on_ppp_changed, in the event task

(* Mutant of HandlePppLost: the transport is left to find out by itself. *)
HandlePppLostLeaves == UNCHANGED handling

HandlePppLost == handling' = "push_stop"

HandleLteEvent ==
  /\ handling = "none" /\ events # <<>>
  /\ events' = Tail(events)
  /\ \/ /\ Head(events) = "ppp_got_ip"
        /\ lteBits' = lteBits \cup {"CONNECT"}
        /\ UNCHANGED handling
     \/ Head(events) = "ppp_up" /\ handling' = "push_start" /\ UNCHANGED lteBits
     \/ Head(events) = "ppp_lost" /\ HandlePppLost /\ UNCHANGED lteBits
  /\ UNCHANGED <<fitted, config, mainPc, pushOn, lateStop, dce, ppp, starter, lteCall>>

-----------------------------------------------------------------------------
\* cat1_open and its task, task_start_modem

\* Without memory there is no task, and nobody is told.
Cat1Open(c) ==
  /\ lteBits' = {}
  /\ \/ starter' = [starter EXCEPT ![c] = "clear"]
     \/ "memory" \in NetFaults /\ UNCHANGED starter

StarterClears(s) ==
  /\ StarterGoes(s, "clear", "baud")
  /\ lteBits' = lteBits \ {"CONNECT", "DISCONNECT"}
  /\ UNCHANGED <<dce, ppp>>

StarterFindsModem(s) ==
  /\ StarterGoes(s, "baud", "attach")
  /\ dce' = "ok"
  /\ UNCHANGED <<ppp, lteBits>>

\* The PIN is right and the network registers the modem.
StarterAttaches(s) ==
  /\ dce = "ok"
  /\ StarterGoes(s, "attach", "dial")
  /\ UNCHANGED <<dce, ppp, lteBits>>

StarterFails(s) ==
  /\ \/ "fail" \in NetFaults /\ StarterGoes(s, "baud", "none")
     \/ ("fail" \in NetFaults \/ dce = "null") /\ StarterGoes(s, "attach", "none")
  /\ lteBits' = lteBits \cup {"DISCONNECT"}
  /\ UNCHANGED <<dce, ppp>>

\* connect_to_network returns ESP_OK when the modem did not dial, too.
StarterDials(s) ==
  /\ StarterGoes(s, "dial", "none")
  /\ \/ dce = "ok" /\ ppp' = IF ppp = "down" THEN "dialing" ELSE ppp
     \/ ("fail" \in NetFaults \/ dce = "null") /\ UNCHANGED ppp
  /\ UNCHANGED <<dce, lteBits>>

StarterStep(s) ==
  /\ \/ StarterClears(s) \/ StarterFindsModem(s) \/ StarterAttaches(s)
     \/ StarterFails(s) \/ StarterDials(s)
  /\ UNCHANGED <<netVars, lteCall>>

-----------------------------------------------------------------------------
\* cat1_wait_open: 90 s at most.  If they end without CONNECT, the transport
\* is stopped, which may come after the event task has started it.

WaitEnds(c) ==
  /\ \/ "CONNECT" \in lteBits /\ LteGoes(c, "wait", "idle")
     \/ "CONNECT" \notin lteBits /\ LteGoes(c, "wait", "stop")
  /\ UNCHANGED <<netVars, dce, ppp, lteBits, starter>>

WaitStops(c) ==
  /\ LteGoes(c, "stop", "idle")
  /\ StopLate
  /\ UNCHANGED <<fitted, config, mainPc, events, handling, dce, ppp, lteBits, starter>>

LteWait(c) == WaitEnds(c) \/ WaitStops(c)

-----------------------------------------------------------------------------
\* netModule_open, in the main task

LteOpen ==
  /\ mainPc = "open"
  /\ mainPc' = "lte"
  /\ LteGoes("main", "idle", "wait")
  /\ Cat1Open("main")
  /\ UNCHANGED <<fitted, config, events, handling, pushOn, lateStop, dce, ppp>>

LteOpened ==
  /\ mainPc = "lte" /\ lteCall["main"] = "idle"
  /\ mainPc' = "opened"
  /\ UNCHANGED <<fitted, config, events, handling, pushOn, lateStop, cat1Vars>>

-----------------------------------------------------------------------------
\* set_cellular_param_handle: cat1_restart

\* Bound: a caller has one start task at a time.
HttpRestart ==
  /\ config /\ mainPc # "open" /\ starter["http"] = "none"
  /\ LteGoes("http", "idle", "destroy")
  /\ pushOn' = FALSE
  /\ UNCHANGED <<fitted, config, mainPc, events, handling, lateStop, dce, ppp, lteBits, starter>>

\* A start task that uses the modem meanwhile works on freed memory: it finds
\* the null pointer, or the device panics and boots again.
RestartDestroys ==
  /\ LteGoes("http", "destroy", "open") /\ CanPost
  /\ dce' = "null" /\ ppp' = "down"
  /\ PostIf(ppp = "up", "ppp_lost")
  /\ \/ UNCHANGED mainPc
     \/ (\E s \in Openers : starter[s] \in {"attach", "dial"}) /\ mainPc' = "panic"
  /\ UNCHANGED <<fitted, config, handling, pushOn, lateStop, lteBits, starter>>

RestartOpens ==
  /\ LteGoes("http", "open", "wait")
  /\ Cat1Open("http")
  /\ UNCHANGED <<netVars, dce, ppp>>

LteRestart == RestartDestroys \/ RestartOpens

-----------------------------------------------------------------------------
Cat1Init ==
  /\ dce = "null" /\ ppp = "down" /\ lteBits = {}
  /\ starter = [s \in Openers |-> "none"]
  /\ lteCall = [c \in Openers |-> "idle"]

Cat1TypeOK ==
  /\ dce \in {"null", "ok"} /\ ppp \in {"down", "dialing", "up"}
  /\ lteBits \subseteq {"CONNECT", "DISCONNECT"}
  /\ starter \in [Openers -> StarterPlaces] /\ lteCall \in [Openers -> LteCallPlaces]
=============================================================================
