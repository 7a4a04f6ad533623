------------------------------- MODULE WebSession -----------------------------
(***************************************************************************)
(* Who uses the device in config mode, and when it is thought unused: the  *)
(* idle timer of http.c, the one of the access point in wifi.c, the        *)
(* requests that end the session (sleep, reset, upgrade), the debug        *)
(* command, and the bits the main task waits for before deep sleep.        *)
(*                                                                         *)
(* The web server has one task for its requests, and the live view another; *)
(* they, the console, and the task of the timers run on any core.          *)
(***************************************************************************)
EXTENDS Naturals

CONSTANTS
  WebTimeout,  \* WEB_TIMEOUT_SECONDS
  ApTimeout    \* AP_TIMEOUT_SECONDS

ASSUME TimeoutAssumption == WebTimeout \in Nat /\ ApTimeout \in 0 .. WebTimeout

VARIABLES
  webTimeoutSeconds,  \* g_http: seconds since a request
  tick,               \* what the web's timer_cb has read
  hasClient,          \* g_http: there has been a request
  apTimeoutSeconds,   \* g_wifi: seconds with neither user nor client
  apUser,             \* apUserCount # 0
  apTimer,            \* the access point's timer runs
  bits,               \* of sleep.c's event group, those that config mode adds
  webPc,              \* what the web server's task is in
  quiet,              \* history: seconds since the last request or snapshot
  uncounted,          \* history: that one has not restarted the timers
  asked               \* history: a request to sleep has set its bit

timeVars == <<webTimeoutSeconds, tick, hasClient, apTimeoutSeconds>>
historyVars == <<quiet, uncounted, asked>>
webVars == <<timeVars, apUser, apTimer, bits, webPc, historyVars>>

SessionBits == {"no_operation", "no_debug", "dpp_done"}

\* Bound: beyond the timeout a second more makes no difference.
After(n, timeout) == IF n < timeout THEN n + 1 ELSE n

-----------------------------------------------------------------------------
\* The timers, in their task

\* http_open
HttpOpen ==
  /\ webTimeoutSeconds' = 0 /\ hasClient' = FALSE
  /\ bits' = bits \cup {"no_debug"}
  /\ quiet' = 0
  /\ UNCHANGED <<tick, apTimeoutSeconds, apUser, apTimer, webPc, uncounted, asked>>

\* wifi_timer_start, if there is an access point
ApOpen(hasAp) ==
  /\ apTimer' = hasAp
  /\ UNCHANGED <<timeVars, apUser, bits, webPc, historyVars>>

\* webTimeoutSeconds++ >= WEB_TIMEOUT_SECONDS in timer_cb of http.c: a read ...
HttpTickReads ==
  /\ tick' = webTimeoutSeconds
  /\ UNCHANGED <<webTimeoutSeconds, hasClient, apTimeoutSeconds, apUser, apTimer,
                 bits, webPc, historyVars>>

\* ... and a write, whatever a request has written between them.
HttpTickWrites ==
  /\ webTimeoutSeconds' = After(tick, WebTimeout)
  /\ bits' = IF tick >= WebTimeout THEN bits \cup {"no_operation"} ELSE bits
  /\ tick' = 0
  /\ quiet' = After(quiet, WebTimeout)
  /\ UNCHANGED <<hasClient, apTimeoutSeconds, apUser, apTimer, webPc, uncounted, asked>>

\* timer_cb of wifi.c
ApTick ==
  /\ LET n == IF hasClient \/ apUser THEN 0 ELSE After(apTimeoutSeconds, ApTimeout)
     IN  /\ apTimeoutSeconds' = n
         /\ bits' = IF ~hasClient /\ n >= ApTimeout THEN bits \cup {"no_operation"} ELSE bits
  /\ UNCHANGED <<webTimeoutSeconds, tick, hasClient, apUser, apTimer, webPc, historyVars>>

-----------------------------------------------------------------------------
\* Use

\* A use is not counted if the tick in progress has read the old value, or the
\* bit is set already: nothing clears it before the device sleeps.
Used(ticking) ==
  /\ quiet' = 0
  /\ uncounted' = (ticking \/ "no_operation" \in bits)
  /\ UNCHANGED asked

\* clear_timeout, the first thing a handler does
ClearTimeout(ticking) ==
  /\ webTimeoutSeconds' = 0 /\ hasClient' = TRUE
  /\ Used(ticking)
  /\ UNCHANGED <<tick, apTimeoutSeconds, apUser, apTimer>>

\* A request that only reads or writes settings.
Request(ticking) ==
  /\ webPc = "idle" /\ ClearTimeout(ticking)
  /\ UNCHANGED <<bits, webPc>>

\* get_jpeg_stream_handle; the view itself counts no more.
LiveView(ticking) == ClearTimeout(ticking) /\ UNCHANGED <<bits, webPc>>

\* set_dev_sleep_handle, set_dev_reset_handle: they answer first.
RequestEnd(what, ticking) ==
  /\ webPc = "idle" /\ webPc' = what
  /\ ClearTimeout(ticking)
  /\ UNCHANGED bits

SleepAsked ==
  /\ webPc = "sleep" /\ webPc' = "idle"
  /\ bits' = bits \cup {"no_operation"}
  /\ asked' = TRUE
  /\ UNCHANGED <<timeVars, apUser, apTimer, quiet, uncounted>>

\* set_dev_upgrade_handle does not clear the timeout, and may take long; while
\* it does the web server has no other request.
UpgradeBegins ==
  /\ webPc = "idle" /\ webPc' = "upgrade"
  /\ quiet' = 0 /\ uncounted' = TRUE
  /\ UNCHANGED <<timeVars, apUser, apTimer, bits, asked>>

\* The transfer stops, or the image is refused (ota_start, ota_run, ota_stop).
UpgradeFails ==
  /\ webPc = "upgrade" /\ webPc' = "idle"
  /\ UNCHANGED <<timeVars, apUser, apTimer, bits, historyVars>>

(* Mutant of SnapshotCounts: a snapshot does not clear the web's timeout. *)
SnapshotCountsHalf ==
  /\ apTimeoutSeconds' = 0
  /\ Used(FALSE)
  /\ UNCHANGED <<webTimeoutSeconds, tick, hasClient, apUser, apTimer, bits, webPc>>

\* wifi_clear_timeout and http_clear_timeout, in the task of the timers
SnapshotCounts ==
  /\ apTimeoutSeconds' = 0 /\ webTimeoutSeconds' = 0
  /\ Used(FALSE)
  /\ UNCHANGED <<tick, hasClient, apUser, apTimer, bits, webPc>>

\* WIFI_EVENT_AP_STACONNECTED and WIFI_EVENT_AP_STADISCONNECTED
ApUser ==
  /\ apUser' = ~apUser
  /\ UNCHANGED <<timeVars, apTimer, bits, webPc, historyVars>>

\* do_debug_cmd
Debug(off) ==
  /\ bits' = IF off THEN bits \cup {"no_debug"} ELSE bits \ {"no_debug"}
  /\ UNCHANGED <<timeVars, apUser, apTimer, webPc, historyVars>>

\* do_tcp_client and do_tcp_server stop the access point's timer for good.
TcpTest ==
  /\ apTimer /\ apTimer' = FALSE
  /\ UNCHANGED <<timeVars, apUser, bits, webPc, historyVars>>

-----------------------------------------------------------------------------
\* The bit of a provisioning task, and the wait of the main task

DppBit(done) ==
  /\ bits' = IF done THEN bits \cup {"dpp_done"} ELSE bits \ {"dpp_done"}
  /\ UNCHANGED <<timeVars, apUser, apTimer, webPc, historyVars>>

WaitReturns ==
  /\ SessionBits \subseteq bits
  /\ bits' = {}
  /\ UNCHANGED <<timeVars, apUser, apTimer, webPc, historyVars>>

-----------------------------------------------------------------------------
WebInit ==
  /\ webTimeoutSeconds = 0 /\ tick = 0 /\ hasClient = FALSE
  /\ apTimeoutSeconds = 0 /\ apUser = FALSE /\ apTimer = FALSE
  /\ bits = {} /\ webPc = "idle"
  /\ quiet = 0 /\ uncounted = FALSE /\ asked = FALSE

WebTypeOK ==
  /\ webTimeoutSeconds \in 0 .. WebTimeout /\ tick \in 0 .. WebTimeout
  /\ hasClient \in BOOLEAN
  /\ apTimeoutSeconds \in 0 .. ApTimeout
  /\ apUser \in BOOLEAN /\ apTimer \in BOOLEAN
  /\ bits \subseteq SessionBits
  /\ webPc \in {"idle", "sleep", "reset", "upgrade"}
  /\ quiet \in 0 .. WebTimeout
  /\ uncounted \in BOOLEAN /\ asked \in BOOLEAN
=============================================================================
